---- MODULE Spec2Model ----
(***************************************************************************)
(* A model of organize.py: a command-line tool that moves the regular      *)
(* files of a source folder into category sub-folders of an output folder  *)
(* (organize), records every move in a JSON log inside the output folder,  *)
(* and moves the recorded files back (undo_moves).                         *)
(*                                                                         *)
(* File names are sequences of one-character strings, so that splitext,    *)
(* lower() and the "(n)" suffix of unique_dest_path are computed, not      *)
(* assumed.  A path is a directory plus a file name.  The directories are  *)
(* the source folder "src", the output folder "out" and the category       *)
(* folders of the output folder, named by their category.  The source      *)
(* folder and the output folder are different folders.                     *)
(*                                                                         *)
(* What the environment decides is an input of the action: the order of    *)
(* os.listdir, the files whose shutil.move raises, whether os.makedirs     *)
(* raises when undo_moves has to recreate the source folder, whether       *)
(* os.remove of the log file raises.  A move that raises leaves the file   *)
(* where it was.  Creating the output folder and its category folders      *)
(* succeeds.  Every entry of a log that holds a list has a src and a dest  *)
(* (the test of line 91 never skips an entry), since the tool writes no    *)
(* other entries.  The timestamp of an entry is the number of the run.     *)
(***************************************************************************)
EXTENDS Integers, Sequences, FiniteSets, TLC

VARIABLES files, dirs, log, nextId, ops, hist

vars == <<files, dirs, log, nextId, ops, hist>>

-----------------------------------------------------------------------------
(* Bounds of the model.                                                    *)

\* Number of organize / undo runs in one behaviour.
MaxOps == 3

\* Number of files that ever appear in the source folder.
MaxFiles == 2

\* Number of runs in a behaviour of organize runs alone (SpecRuns).
MaxRuns == 4

-----------------------------------------------------------------------------
(* Configuration (organize.py lines 8-17).                                 *)

CategoryOrder == <<"Images", "Documents", "Music", "Videos", "Archives", "Scripts">>

FILE_TYPES ==
    [ Images    |-> << <<".","j","p","g">>, <<".","j","p","e","g">>, <<".","p","n","g">>,
                       <<".","g","i","f">>, <<".","b","m","p">>, <<".","w","e","b","p">> >>,
      Documents |-> << <<".","p","d","f">>, <<".","d","o","c","x">>, <<".","d","o","c">>,
                       <<".","t","x","t">>, <<".","x","l","s","x">>, <<".","c","s","v">>,
                       <<".","p","p","t","x">> >>,
      Music     |-> << <<".","m","p","3">>, <<".","w","a","v">>, <<".","o","g","g">> >>,
      Videos    |-> << <<".","m","p","4">>, <<".","m","o","v">>, <<".","a","v","i">>,
                       <<".","m","k","v">> >>,
      Archives  |-> << <<".","z","i","p">>, <<".","t","a","r">>, <<".","g","z">>,
                       <<".","r","a","r">> >>,
      Scripts   |-> << <<".","p","y">>, <<".","j","s">>, <<".","s","h">> >> ]

\* The folder organize() scans and the folder it fills (parse_args defaults
\* "sample_files" and DEFAULT_OUTPUT): two different folders.
SourceDir == "src"
DEFAULT_OUTPUT == "out"

\* The category folders output_folder/<category>, "Others" included.
CategoryDirs == {CategoryOrder[i] : i \in 1..Len(CategoryOrder)} \cup {"Others"}

-----------------------------------------------------------------------------
(* The file names that may appear in the source folder.                    *)

SourceNames ==
    { <<"a",".","t","x","t">>,
      <<"a","(","1",")",".","t","x","t">>,
      <<"b",".","J","P","G">> }

\* The file names of the behaviours of organize runs alone: also a name
\* without extension, an extension FILE_TYPES does not list, and a listed
\* one in mixed case.
RunNames ==
    SourceNames \cup
        { <<"c">>,
          <<"d",".","x","y","z">>,
          <<"m",".","M","p","3">> }

\* The name of the sub-directory the source folder may hold; no file has it.
SubDirName == <<"s","u","b">>

-----------------------------------------------------------------------------
(* String helpers of the Python library, on sequences of characters.       *)

Reverse(s) == [i \in 1..Len(s) |-> s[Len(s) + 1 - i]]

UpperCase == <<"A","B","C","D","E","F","G","H","I","J","K","L","M",
               "N","O","P","Q","R","S","T","U","V","W","X","Y","Z">>
LowerCase == <<"a","b","c","d","e","f","g","h","i","j","k","l","m",
               "n","o","p","q","r","s","t","u","v","w","x","y","z">>

\* str.lower() on one character: the letter of LowerCase at the place the
\* character has in UpperCase, or the character itself.
RECURSIVE LowerCharFrom(_, _)
LowerCharFrom(c, i) ==
    IF i > Len(UpperCase) THEN c
    ELSE IF UpperCase[i] = c THEN LowerCase[i]
    ELSE LowerCharFrom(c, i + 1)

LowerChar(c) == LowerCharFrom(c, 1)

\* str.lower().
RECURSIVE Lower(_)
Lower(s) ==
    IF s = <<>> THEN <<>>
    ELSE <<LowerChar(Head(s))>> \o Lower(Tail(s))

\* os.path.splitext on a file name without separators: the extension starts
\* at the last dot, unless only dots precede that dot.
SplitExt(name) ==
    LET dots == {i \in 1..Len(name) : name[i] = "."}
        dotIndex == IF dots = {} THEN 0 ELSE CHOOSE i \in dots : \A j \in dots : j <= i
    IN  IF dotIndex > 0 /\ \E k \in 1..(dotIndex - 1) : name[k] # "."
        THEN [base |-> SubSeq(name, 1, dotIndex - 1), ext |-> SubSeq(name, dotIndex, Len(name))]
        ELSE [base |-> name, ext |-> <<>>]

DigitChars == <<"0","1","2","3","4","5","6","7","8","9">>

\* str(counter) in the f-string of unique_dest_path.
RECURSIVE IntToStr(_)
IntToStr(n) ==
    IF n < 10 THEN <<DigitChars[n + 1]>>
    ELSE IntToStr(n \div 10) \o <<DigitChars[(n % 10) + 1]>>

-----------------------------------------------------------------------------
(* The file system.  files maps each existing path to the identity of the  *)
(* file stored there; dirs is the set of existing directories.             *)

Path(d, n) == [dir |-> d, name |-> n]

\* os.path.exists(os.path.join(dir, name))
Exists(f, p) == p \in DOMAIN f

\* What the file system stores at the path of a directory entry of the
\* source folder: the directory with all that is in it, as one tree.
\* Regular files are numbered from 1.
DirTree == 0

\* A slip: no entry is taken for a directory.
IsDirNever(f, p) == FALSE

\* os.path.isdir(path) for an entry of the source folder (line 141).
IsDir(f, p) == p \in DOMAIN f /\ f[p] = DirTree

\* os.makedirs(path, exist_ok=True); a category folder brings the output
\* folder with it.
ensure_dir(ds, d) ==
    IF d \in CategoryDirs THEN ds \cup {DEFAULT_OUTPUT, d} ELSE ds \cup {d}

\* shutil.move(from, to) when it succeeds: the file is renamed, and whatever
\* was stored at the target path is replaced.
MoveFile(f, from, to) ==
    [p \in (DOMAIN f \ {from}) \cup {to} |-> IF p = to THEN f[from] ELSE f[p]]

-----------------------------------------------------------------------------
(* Classifier and path allocator.                                          *)

\* The for loop of get_category_for_extension, from the i-th category on.
RECURSIVE CategoryFrom(_, _)
CategoryFrom(ext, i) ==
    IF i > Len(CategoryOrder) THEN "None"
    ELSE LET extensions == FILE_TYPES[CategoryOrder[i]]
         IN  IF \E j \in 1..Len(extensions) : extensions[j] = ext
             THEN CategoryOrder[i]
             ELSE CategoryFrom(ext, i + 1)

\* get_category_for_extension: the first category of FILE_TYPES that lists
\* the extension, or "None".
get_category_for_extension(ext) == CategoryFrom(ext, 1)

\* A slip: the extension is looked up as it is written.
CategoryOfCaseSensitive(filename) ==
    LET c == get_category_for_extension(SplitExt(filename).ext)
    IN  IF c = "None" THEN "Others" ELSE c

\* category = get_category_for_extension(ext) or "Others"   (lines 146-147)
CategoryOf(filename) ==
    LET ext == Lower(SplitExt(filename).ext)
        c   == get_category_for_extension(ext)
    IN  IF c = "None" THEN "Others" ELSE c

\* The while loop of unique_dest_path.
RECURSIVE UniqueLoop(_, _, _, _, _, _)
UniqueLoop(f, dest_dir, base, ext, candidate, counter) ==
    IF Exists(f, Path(dest_dir, candidate))
    THEN UniqueLoop(f, dest_dir, base, ext,
                    base \o <<"(">> \o IntToStr(counter) \o <<")">> \o ext,
                    counter + 1)
    ELSE Path(dest_dir, candidate)

\* A slip: the counter starts at 0.
unique_dest_path_from_zero(f, dest_dir, filename) ==
    LET s == SplitExt(filename)
    IN  UniqueLoop(f, dest_dir, s.base, s.ext, filename, 0)

\* A slip: the file name is used as it is, taken or not.
naive_dest_path(f, dest_dir, filename) == Path(dest_dir, filename)

unique_dest_path(f, dest_dir, filename) ==
    LET s == SplitExt(filename)
    IN  UniqueLoop(f, dest_dir, s.base, s.ext, filename, 1)

-----------------------------------------------------------------------------
(* Move log store.  The log file output_folder/organize_log.json is absent, *)
(* holds something json.load rejects or that is no list (valid = FALSE),    *)
(* or holds a list of move records.                                         *)

NoLog == [exists |-> FALSE, valid |-> FALSE, entries |-> <<>>]

CorruptedLog == [exists |-> TRUE, valid |-> FALSE, entries |-> <<>>]

ListLog(entries) == [exists |-> TRUE, valid |-> TRUE, entries |-> entries]

\* A slip: the new entries replace the list the file holds.
write_log_overwrite(lg, log_entries) == ListLog(log_entries)

\* A slip: a log file that holds no list is left as it is.
write_log_keep_corrupt(lg, log_entries) ==
    IF lg.exists /\ lg.valid THEN ListLog(lg.entries \o log_entries)
    ELSE IF lg.exists THEN lg
    ELSE ListLog(log_entries)

\* write_log: the entries already stored come first when the file holds a
\* list; the file is rewritten as a whole.
write_log(lg, log_entries) ==
    IF lg.exists /\ lg.valid
    THEN ListLog(lg.entries \o log_entries)
    ELSE ListLog(log_entries)

\* load_log: [] when the file is absent or holds no list.
load_log(lg) ==
    IF ~lg.exists THEN <<>>
    ELSE IF lg.valid THEN lg.entries
    ELSE <<>>

-----------------------------------------------------------------------------
(* History of the last run, kept for stating the properties: the run       *)
(* (op, dry), the state before it (preFiles, preDirs, preLog), what         *)
(* organize returned and counted (returned, total, skipped, counts), the    *)
(* names whose move failed (failedNames), whether something existed at a    *)
(* dest right before its move (destExisted); for undo_moves the positions   *)
(* of the log in the order visited (visited), those restored, failed        *)
(* (failedIdx, with the entries in failed) or skipped for a missing dest    *)
(* (missing), whether a file stood at src right before a move back          *)
(* (clobbered), whether an exception left the run (aborted), whether        *)
(* os.remove raised (removeFailed); and what the run before it was          *)
(* (afterCleanOrganize with beforeOrganize, afterFullUndo).  Two fields     *)
(* outlive the run: the records returned by the organize runs since the     *)
(* last undo run or damage of the log, oldest first (streak), and the       *)
(* entries the log held when they began (base).                             *)

EmptyFiles == [p \in {} |-> 0]

ZeroCounts == [c \in CategoryDirs |-> 0]

NoHist ==
    [ op |-> "init", dry |-> FALSE, returned |-> <<>>,
      preFiles |-> EmptyFiles, preDirs |-> {}, preLog |-> NoLog,
      total |-> 0, skipped |-> 0, counts |-> ZeroCounts, destExisted |-> <<>>,
      failedNames |-> {}, aborted |-> FALSE, failed |-> <<>>, failedIdx |-> <<>>,
      restored |-> <<>>, missing |-> <<>>, visited |-> <<>>, clobbered |-> <<>>,
      removeFailed |-> FALSE,
      afterCleanOrganize |-> FALSE, beforeOrganize |-> EmptyFiles,
      afterFullUndo |-> FALSE, base |-> <<>>, streak |-> <<>> ]

-----------------------------------------------------------------------------
(* organize (lines 119-191).                                               *)

\* A slip in the log entry: src and dest change places.
MoveRecordSwapped(timestamp, file_path, dest_path) ==
    [timestamp |-> timestamp, src |-> dest_path, dest |-> file_path]

\* The log entry of one move (lines 165-169).
MoveRecord(timestamp, file_path, dest_path) ==
    [timestamp |-> timestamp, src |-> file_path, dest |-> dest_path]

\* One iteration of the for loop of organize (lines 137-173) on an entry of
\* the source folder; a directory is skipped (lines 141-143).  fails is the set of files whose shutil.move
\* raises; a move that raises leaves the file where it was.  now stands for
\* datetime.now(): the number of the run.
OrganizeStep(st, filename, dry_run, fails, now) ==
    LET file_path == Path(SourceDir, filename)
        category  == CategoryOf(filename)
        dest_dir  == category
        dest_path == unique_dest_path(st.files, dest_dir, filename)
        st1       == [st EXCEPT !.total = @ + 1,
                                !.dirs  = ensure_dir(@, dest_dir)]
    IN  IF IsDir(st.files, file_path) THEN st
        ELSE IF dry_run THEN st1
        ELSE IF st.files[file_path] \in fails
        THEN [st1 EXCEPT !.skipped = @ + 1, !.failedNames = @ \cup {filename}]
        ELSE [st1 EXCEPT
                !.destExisted = Append(@, Exists(st.files, dest_path)),
                !.files = MoveFile(@, file_path, dest_path),
                !.moved = Append(@, MoveRecord(now, file_path, dest_path)),
                !.counts[category] = @ + 1]

\* The for loop over os.listdir(source_folder), in the order listing gives.
RECURSIVE OrganizeLoop(_, _, _, _, _, _)
OrganizeLoop(st, listing, i, dry_run, fails, now) ==
    IF i > Len(listing) THEN st
    ELSE OrganizeLoop(OrganizeStep(st, listing[i], dry_run, fails, now),
                      listing, i + 1, dry_run, fails, now)

\* The orders in which os.listdir may give the entries of a folder.
Listings(f, d) ==
    LET names == {p.name : p \in {q \in DOMAIN f : q.dir = d}}
    IN  {s \in [1..Cardinality(names) -> names] :
            \A i, j \in 1..Cardinality(names) : s[i] = s[j] => i = j}

\* A slip: the run's list replaces the log, whatever it holds.
LogAfterRunFresh(lg, moved_entries) == ListLog(moved_entries)

\* A slip: the log is written after every run, moved files or not.
LogAfterRunAlways(lg, moved_entries) == write_log(lg, moved_entries)

\* The log after the loop (lines 183-189): written only when a file moved.
LogAfterRun(lg, moved_entries) ==
    IF moved_entries # <<>> THEN write_log(lg, moved_entries) ELSE lg

\* A slip: the output folder is created before the source folder is looked
\* for.
SourceMissingAfterMkdir(f, ds, lg) ==
    [files |-> f, dirs |-> ensure_dir(ds, DEFAULT_OUTPUT), log |-> lg,
     moved |-> <<>>, total |-> 0, skipped |-> 0, counts |-> ZeroCounts,
     destExisted |-> <<>>, failedNames |-> {}]

\* The early return of organize when the source folder does not exist
\* (lines 130-133): nothing is touched, the empty list is returned.
SourceMissing(f, ds, lg) ==
    [files |-> f, dirs |-> ds, log |-> lg, moved |-> <<>>,
     total |-> 0, skipped |-> 0, counts |-> ZeroCounts,
     destExisted |-> <<>>, failedNames |-> {}]

\* The state organize() reaches from (f, ds, lg): the run's final file
\* system, log and returned list.
organize(f, ds, lg, listing, dry_run, fails, now) ==
    IF SourceDir \notin ds
    THEN SourceMissing(f, ds, lg)
    ELSE LET st0 == [files |-> f, dirs |-> ensure_dir(ds, DEFAULT_OUTPUT),
                     moved |-> <<>>, total |-> 0, skipped |-> 0,
                     counts |-> ZeroCounts, destExisted |-> <<>>, failedNames |-> {}]
             st  == OrganizeLoop(st0, listing, 1, dry_run, fails, now)
         IN  [files |-> st.files, dirs |-> st.dirs,
              log |-> LogAfterRun(lg, st.moved),
              moved |-> st.moved,
              total |-> st.total, skipped |-> st.skipped, counts |-> st.counts,
              destExisted |-> st.destExisted, failedNames |-> st.failedNames]

Organize(dry_run, listing, fails) ==
    /\ ops < MaxOps
    /\ \E r \in {organize(files, dirs, log, listing, dry_run, fails, ops + 1)} :
           /\ files' = r.files
           /\ dirs'  = r.dirs
           /\ log'   = r.log
           /\ hist'  = [NoHist EXCEPT
                          !.op = "organize", !.dry = dry_run,
                          !.returned = r.moved,
                          !.preFiles = files, !.preDirs = dirs, !.preLog = log,
                          !.total = r.total, !.skipped = r.skipped,
                          !.counts = r.counts, !.destExisted = r.destExisted,
                          !.failedNames = r.failedNames,
                          !.base = hist.base,
                          !.streak = hist.streak \o r.moved]
    /\ ops' = ops + 1
    /\ UNCHANGED nextId

-----------------------------------------------------------------------------
(* undo_moves (lines 75-117).                                              *)

\* A slip: the log is walked oldest entry first.
UndoOrderForward(lg) == [i \in 1..Len(lg) |-> i]

\* The order in which undo_moves visits the log: reversed(log), each entry
\* with its position in the log.
UndoOrder(lg) == Reverse([i \in 1..Len(lg) |-> i])

\* One iteration of the for loop of undo_moves (lines 88-105) on the entry
\* at position idx of the log.  fails is the set of files whose
\* shutil.move raises; mkdirFails says that os.makedirs raises when the
\* parent folder of src has to be created.  ensure_dir is called outside the
\* try block, so its exception leaves undo_moves.
UndoStep(st, entry, idx, fails, mkdirFails) ==
    IF st.aborted THEN st
    ELSE
    LET st0 == [st EXCEPT !.visited = Append(@, idx)]
        parent == entry.src.dir
    IN  IF Exists(st.files, entry.dest)
        THEN IF parent \notin st.dirs /\ mkdirFails
             THEN [st0 EXCEPT !.aborted = TRUE]
             ELSE LET st1 == [st0 EXCEPT !.dirs = ensure_dir(@, parent)]
                  IN  IF st.files[entry.dest] \in fails
                      THEN [st1 EXCEPT !.failed = Append(@, entry),
                                       !.failedIdx = Append(@, idx)]
                      ELSE [st1 EXCEPT
                              !.clobbered = Append(@, Exists(st.files, entry.src)),
                              !.files = MoveFile(@, entry.dest, entry.src),
                              !.restored = Append(@, idx)]
        ELSE [st0 EXCEPT !.missing = Append(@, idx)]

RECURSIVE UndoLoop(_, _, _, _, _, _)
UndoLoop(st, lg, order, k, fails, mkdirFails) ==
    IF k > Len(order) THEN st
    ELSE UndoLoop(UndoStep(st, lg[order[k]], order[k], fails, mkdirFails),
                  lg, order, k + 1, fails, mkdirFails)

\* A slip: the log file is never removed.
UndoLogAfterKeep(lg, failed, removeFails) ==
    IF failed = <<>> THEN lg ELSE write_log(lg, Reverse(failed))

\* What undo_moves does with the log file once the loop is over (lines
\* 107-117): os.remove when nothing failed, else write_log of the failed
\* entries in log order.
UndoLogAfter(lg, failed, removeFails) ==
    IF failed = <<>>
    THEN IF removeFails THEN lg ELSE NoLog
    ELSE write_log(lg, Reverse(failed))

\* The state undo_moves() reaches from (f, ds, lg).
undo_moves(f, ds, lg, fails, mkdirFails, removeFails) ==
    LET entries == load_log(lg)
        st0 == [files |-> f, dirs |-> ds, failed |-> <<>>, failedIdx |-> <<>>,
                restored |-> <<>>,
                missing |-> <<>>, visited |-> <<>>, clobbered |-> <<>>,
                aborted |-> FALSE]
    IN  IF entries = <<>>
        THEN st0 @@ [log |-> lg]
        ELSE LET st == UndoLoop(st0, entries, UndoOrder(entries), 1, fails, mkdirFails)
             IN  st @@ [log |-> IF st.aborted THEN lg
                                ELSE UndoLogAfter(lg, st.failed, removeFails)]

Undo(fails, mkdirFails, removeFails) ==
    /\ ops < MaxOps
    /\ \E r \in {undo_moves(files, dirs, log, fails, mkdirFails, removeFails)} :
           /\ files' = r.files
           /\ dirs'  = IF r.log.exists /\ r.failed # <<>> /\ ~r.aborted
                       THEN ensure_dir(r.dirs, DEFAULT_OUTPUT) ELSE r.dirs
           /\ log'   = r.log
           /\ hist'  = [NoHist EXCEPT
                          !.op = "undo",
                          !.preFiles = files, !.preDirs = dirs, !.preLog = log,
                          !.aborted = r.aborted, !.failed = r.failed,
                          !.failedIdx = r.failedIdx,
                          !.restored = r.restored, !.missing = r.missing,
                          !.visited = r.visited, !.clobbered = r.clobbered,
                          !.base = load_log(r.log),
                          !.removeFailed = (removeFails /\ load_log(log) # <<>>
                                            /\ r.failed = <<>> /\ ~r.aborted),
                          !.afterCleanOrganize =
                              (/\ hist.op = "organize" /\ ~hist.dry
                               /\ ~hist.preLog.exists
                               /\ hist.skipped = 0
                               /\ SourceDir \in hist.preDirs),
                          !.beforeOrganize =
                              IF hist.op = "organize" THEN hist.preFiles ELSE EmptyFiles,
                          !.afterFullUndo =
                              (/\ hist.op = "undo" /\ load_log(hist.preLog) # <<>>
                               /\ hist.failed = <<>> /\ ~hist.aborted
                               /\ ~hist.removeFailed)]
    /\ ops' = ops + 1
    /\ UNCHANGED nextId

-----------------------------------------------------------------------------
(* The world around the tool.  It acts only while a run of the tool is     *)
(* still to come.                                                          *)

\* A new file appears in the source folder.
AddFile(name) ==
    /\ ops < MaxOps
    /\ nextId <= MaxFiles
    /\ SourceDir \in dirs
    /\ ~Exists(files, Path(SourceDir, name))
    /\ files' = [p \in DOMAIN files \cup {Path(SourceDir, name)} |->
                    IF p = Path(SourceDir, name) THEN nextId ELSE files[p]]
    /\ nextId' = nextId + 1
    /\ hist' = [NoHist EXCEPT !.op = "env", !.base = hist.base,
                               !.streak = hist.streak]
    /\ UNCHANGED <<dirs, log, ops>>

\* A sub-directory with files in it appears in the source folder.
AddSubDir ==
    /\ ops < MaxOps
    /\ SourceDir \in dirs
    /\ ~Exists(files, Path(SourceDir, SubDirName))
    /\ files' = [p \in DOMAIN files \cup {Path(SourceDir, SubDirName)} |->
                    IF p = Path(SourceDir, SubDirName) THEN DirTree ELSE files[p]]
    /\ hist' = [NoHist EXCEPT !.op = "env", !.base = hist.base,
                               !.streak = hist.streak]
    /\ UNCHANGED <<dirs, log, nextId, ops>>

\* Somebody removes a file from a category folder.
RemoveFile(p) ==
    /\ ops < MaxOps
    /\ p \in DOMAIN files
    /\ p.dir # SourceDir
    /\ files' = [q \in DOMAIN files \ {p} |-> files[q]]
    /\ hist' = [NoHist EXCEPT !.op = "env", !.base = hist.base,
                               !.streak = hist.streak]
    /\ UNCHANGED <<dirs, log, nextId, ops>>

\* The log file is damaged: it no longer holds a JSON list.
CorruptLog ==
    /\ ops < MaxOps
    /\ DEFAULT_OUTPUT \in dirs
    /\ log # CorruptedLog
    /\ log' = CorruptedLog
    /\ hist' = [NoHist EXCEPT !.op = "env"]
    /\ UNCHANGED <<files, dirs, nextId, ops>>

\* The empty source folder is removed.
RemoveSourceDir ==
    /\ ops < MaxOps
    /\ SourceDir \in dirs
    /\ \A p \in DOMAIN files : p.dir # SourceDir
    /\ dirs' = dirs \ {SourceDir}
    /\ hist' = [NoHist EXCEPT !.op = "env", !.base = hist.base,
                               !.streak = hist.streak]
    /\ UNCHANGED <<files, log, nextId, ops>>

-----------------------------------------------------------------------------

\* The files stored in the folders ds.
FilesIn(ds) ==
    {files[p] : p \in {q \in DOMAIN files : q.dir \in ds /\ ~IsDir(files, q)}}

\* The files stored at the dest of an entry of the log: those undo_moves
\* may call shutil.move on.
Recorded ==
    {files[load_log(log)[i].dest] :
        i \in {j \in 1..Len(load_log(log)) : Exists(files, load_log(log)[j].dest)}}

Init ==
    /\ files = EmptyFiles
    /\ dirs = {SourceDir}
    /\ log = NoLog
    /\ nextId = 1
    /\ ops = 0
    /\ hist = NoHist

Next ==
    \/ \E dry_run \in BOOLEAN :
       \E listing \in Listings(files, SourceDir) :
       \E fails \in (IF dry_run THEN {{}} ELSE SUBSET FilesIn({SourceDir})) :
          Organize(dry_run, listing, fails)
    \/ \E fails \in SUBSET Recorded :
       \E mkdirFails \in {b \in BOOLEAN : b => SourceDir \notin dirs} :
       \E removeFails \in {b \in BOOLEAN : b => load_log(log) # <<>>} :
          Undo(fails, mkdirFails, removeFails)
    \/ \E name \in SourceNames : AddFile(name)
    \/ AddSubDir
    \/ \E p \in DOMAIN files : RemoveFile(p)
    \/ CorruptLog
    \/ RemoveSourceDir

Spec == Init /\ [][Next]_vars

\* Organize runs alone: a file of some name appears in the empty source
\* folder, and an organize run in which no move fails handles it.
OrganizeNewFile(name) ==
    /\ nextId <= MaxRuns
    /\ LET file_path == Path(SourceDir, name)
           f1 == [p \in DOMAIN files \cup {file_path} |->
                     IF p = file_path THEN nextId ELSE files[p]]
       IN  \E r \in {organize(f1, dirs, log, <<name>>, FALSE, {}, ops + 1)} :
              /\ files' = r.files
              /\ dirs'  = r.dirs
              /\ log'   = r.log
              /\ hist'  = [NoHist EXCEPT
                             !.op = "organize",
                             !.returned = r.moved,
                             !.preFiles = f1, !.preDirs = dirs, !.preLog = log,
                             !.total = r.total, !.skipped = r.skipped,
                             !.counts = r.counts, !.destExisted = r.destExisted,
                             !.failedNames = r.failedNames,
                             !.base = hist.base,
                             !.streak = hist.streak \o r.moved]
    /\ nextId' = nextId + 1
    /\ ops' = ops + 1

NextRuns == \E name \in RunNames : OrganizeNewFile(name)

SpecRuns == Init /\ [][NextRuns]_vars

TypeOK ==
    /\ \A p \in DOMAIN files : p.dir \in dirs
    /\ log.exists => DEFAULT_OUTPUT \in dirs
    /\ \A c \in CategoryDirs : c \in dirs => DEFAULT_OUTPUT \in dirs

-----------------------------------------------------------------------------
(* Properties.                                                             *)

\* C1: round trip.  An organize run that is no dry run, starts without a log
\* file and in which every move succeeds, followed at once by an undo in
\* which every move succeeds, leaves every file at the path it had before
\* the organize run: the same files at the same paths, none left in a
\* category folder that was not there before.
RoundTrip ==
    (/\ hist.op = "undo" /\ hist.afterCleanOrganize
     /\ ~hist.aborted /\ hist.failed = <<>>)
    => files = hist.beforeOrganize

\* Two files, organized and restored.
RoundTripWitness ==
    /\ hist.op = "undo" /\ hist.afterCleanOrganize
    /\ ~hist.aborted /\ hist.failed = <<>>
    /\ Len(hist.restored) = 2
    /\ Cardinality(DOMAIN files) = 2

\* C2: after an undo in which at least one move back failed, the log holds
\* exactly the entries whose move failed, each once, in the order they had in
\* the log, and nothing else.
UndoKeepsOnlyFailed ==
    (hist.op = "undo" /\ ~hist.aborted /\ hist.failed # <<>>)
    => log = ListLog(Reverse(hist.failed))

\* C3: no run deletes or overwrites a regular file: every file stored before
\* an organize or undo run is stored after it, undo never moves a file onto
\* a path that holds another file, and the log file disappears only in an
\* undo without failures.
NoFileLost ==
    hist.op \in {"organize", "undo"} =>
        /\ \A p \in DOMAIN hist.preFiles :
              \E q \in DOMAIN files : files[q] = hist.preFiles[p]
        /\ \A i \in 1..Len(hist.clobbered) : ~hist.clobbered[i]
        /\ (hist.preLog.exists /\ ~log.exists)
              => (hist.op = "undo" /\ hist.failed = <<>>)

\* C4: a dry run moves no file, neither creates nor changes the log file,
\* and returns the empty list.
DryRunKeepsFilesAndLog ==
    (hist.op = "organize" /\ hist.dry) =>
        /\ files = hist.preFiles
        /\ log = hist.preLog
        /\ hist.returned = <<>>

\* A dry run over a source folder that holds a file, beside a log of an
\* earlier run.
DryRunWitness ==
    /\ hist.op = "organize" /\ hist.dry
    /\ hist.total >= 1
    /\ load_log(hist.preLog) # <<>>

\* C5: a dry run changes nothing in the file system: the directories, the
\* files and the log are those from before the run.
DryRunChangesNothing ==
    (hist.op = "organize" /\ hist.dry) =>
        /\ dirs = hist.preDirs
        /\ files = hist.preFiles
        /\ log = hist.preLog

\* C6: in an organize run that is no dry run, every file whose move succeeds
\* has exactly one entry in the returned list, with src its path in the
\* source folder and dest the path that holds it now; a file whose move
\* fails has none and stays; nothing existed at an entry's dest right before
\* its move, so no two entries share a dest and the files of the output
\* folder are untouched.
OneRecordPerMove ==
    (hist.op = "organize" /\ ~hist.dry) =>
        LET before == {p \in DOMAIN hist.preFiles :
                          p.dir = SourceDir /\ ~IsDir(hist.preFiles, p)}
            scanned == IF SourceDir \in hist.preDirs THEN before ELSE {}
            ret == hist.returned
        IN  /\ \A p \in scanned :
                  IF p.name \in hist.failedNames
                  THEN /\ \A i \in 1..Len(ret) : ret[i].src # p
                       /\ p \in DOMAIN files /\ files[p] = hist.preFiles[p]
                  ELSE /\ Cardinality({i \in 1..Len(ret) : ret[i].src = p}) = 1
                       /\ \A i \in 1..Len(ret) :
                             ret[i].src = p =>
                                /\ ret[i].dest \in DOMAIN files
                                /\ files[ret[i].dest] = hist.preFiles[p]
                                /\ p \notin DOMAIN files
            /\ \A i \in 1..Len(ret) : ret[i].src \in scanned
            /\ Len(hist.destExisted) = Len(ret)
            /\ \A i \in 1..Len(ret) :
                  /\ ~hist.destExisted[i]
                  /\ ret[i].dest \notin DOMAIN hist.preFiles
            /\ \A i, j \in 1..Len(ret) : ret[i].dest = ret[j].dest => i = j
            /\ \A p \in DOMAIN hist.preFiles :
                  p.dir # SourceDir => (p \in DOMAIN files /\ files[p] = hist.preFiles[p])

\* A file is moved into a category folder that already holds a file of its
\* name, and gets another name there.
OneRecordPerMoveWitness ==
    /\ hist.op = "organize" /\ ~hist.dry
    /\ \E i \in 1..Len(hist.returned) :
          /\ hist.returned[i].dest.name # hist.returned[i].src.name
          /\ Path(hist.returned[i].dest.dir, hist.returned[i].src.name)
                \in DOMAIN hist.preFiles

\* C7: an undo over a log with entries, in which no move back fails and the
\* removal of the log file succeeds, leaves no log file; and an undo that
\* finds no log file visits nothing and changes nothing.
FullUndoRemovesLog ==
    /\ (/\ hist.op = "undo" /\ load_log(hist.preLog) # <<>>
        /\ hist.failed = <<>> /\ ~hist.aborted /\ ~hist.removeFailed)
       => ~log.exists
    /\ (hist.op = "undo" /\ ~hist.preLog.exists)
       => /\ hist.visited = <<>>
          /\ files = hist.preFiles /\ dirs = hist.preDirs /\ log = hist.preLog

\* An undo right after an undo that restored everything and removed the log.
FullUndoWitness ==
    /\ hist.op = "undo" /\ hist.afterFullUndo
    /\ ~hist.preLog.exists

\* C8: an entry whose dest no longer exists is skipped by undo: it is not
\* moved, it is no failure, it is not in the log afterwards, and the log file
\* is removed when every other entry was moved back.  (Stated for the runs
\* that reach the end of undo_moves, in which os.remove does not fail, over
\* a log that holds no entry twice.)
MissingDestSkipped ==
    (/\ hist.op = "undo" /\ ~hist.aborted /\ ~hist.removeFailed
     /\ \A i, j \in 1..Len(load_log(hist.preLog)) :
           load_log(hist.preLog)[i] = load_log(hist.preLog)[j] => i = j) =>
        \A k \in 1..Len(hist.missing) :
            LET idx == hist.missing[k]
                entry == load_log(hist.preLog)[idx]
            IN  /\ \A j \in 1..Len(hist.restored) : hist.restored[j] # idx
                /\ \A j \in 1..Len(hist.failedIdx) : hist.failedIdx[j] # idx
                /\ \A j \in 1..Len(load_log(log)) : load_log(log)[j] # entry
                /\ hist.failed = <<>> => ~log.exists

\* C9: one failure never ends the batch.  Organize attempts every regular
\* file of the source folder, whatever moves fail; undo visits every entry
\* of the log, whatever restorations fail, the creation of the parent
\* folder of src included.  (The undo half is stated for a log that holds
\* no entry twice.)
FailureNeverAborts ==
    /\ (hist.op = "organize" /\ SourceDir \in hist.preDirs) =>
          /\ hist.total = Cardinality({p \in DOMAIN hist.preFiles :
                                          p.dir = SourceDir /\ ~IsDir(hist.preFiles, p)})
          /\ ~hist.dry => Len(hist.returned) + hist.skipped = hist.total
    /\ (/\ hist.op = "undo"
        /\ \A i, j \in 1..Len(load_log(hist.preLog)) :
              load_log(hist.preLog)[i] = load_log(hist.preLog)[j] => i = j) =>
          Len(hist.visited) = Len(load_log(hist.preLog))

\* C10: a log file that is missing or holds no list counts as an empty log:
\* load_log gives the empty list, undo visits nothing and changes nothing,
\* and an organize run that moves files writes exactly its own entries.
BadLogIsEmptyLog ==
    /\ (~log.exists \/ ~log.valid) => load_log(log) = <<>>
    /\ (hist.op = "undo" /\ (~hist.preLog.exists \/ ~hist.preLog.valid)) =>
          /\ hist.visited = <<>> /\ ~hist.aborted
          /\ files = hist.preFiles /\ dirs = hist.preDirs /\ log = hist.preLog
    /\ (/\ hist.op = "organize" /\ hist.returned # <<>>
        /\ (~hist.preLog.exists \/ ~hist.preLog.valid)) =>
          log = ListLog(hist.returned)

\* An organize run moves a file while the log file holds no list.
BadLogWitness ==
    /\ hist.op = "organize"
    /\ hist.preLog = CorruptedLog
    /\ hist.returned # <<>>

\* C11: when the source folder does not exist, organize returns the empty
\* list and leaves the file system as it is: no file moves, the output
\* folder is not created, the log is neither created nor changed.
MissingSourceChangesNothing ==
    (hist.op = "organize" /\ SourceDir \notin hist.preDirs) =>
        /\ hist.returned = <<>>
        /\ files = hist.preFiles
        /\ dirs = hist.preDirs
        /\ log = hist.preLog

\* An organize run that is no dry run, without source folder and without
\* output folder.
MissingSourceWitness ==
    /\ hist.op = "organize" /\ ~hist.dry
    /\ SourceDir \notin hist.preDirs
    /\ DEFAULT_OUTPUT \notin hist.preDirs
    /\ DEFAULT_OUTPUT \notin dirs

\* C20: the log is written only when a move succeeded: an organize run that
\* is no dry run and in which no move succeeds neither creates a log nor
\* changes an existing one.
NoMoveNoLogWrite ==
    (hist.op = "organize" /\ ~hist.dry /\ hist.returned = <<>>) =>
        log = hist.preLog

\* An organize run in which every move fails, over a log that holds the
\* records of an earlier run.
NoMoveNoLogWitness ==
    /\ hist.op = "organize" /\ ~hist.dry
    /\ hist.returned = <<>> /\ hist.skipped >= 1
    /\ hist.preLog.exists /\ hist.preLog.valid
    /\ Len(hist.preLog.entries) >= 1
    /\ log = hist.preLog

\* C18: undo handles the loaded log strictly newest first: the k-th record
\* it handles (moves back, skips or fails on) is the one at position
\* n + 1 - k of a log of n records, over the records of all the runs.
UndoNewestFirst ==
    (hist.op = "undo") =>
        /\ Len(hist.visited) <= Len(load_log(hist.preLog))
        /\ \A k \in 1..Len(hist.visited) :
              hist.visited[k] = Len(load_log(hist.preLog)) + 1 - k
        /\ (~hist.aborted =>
              Len(hist.visited) = Len(load_log(hist.preLog)))

\* An undo over the records of two runs, each of them handled.
UndoNewestFirstWitness ==
    /\ hist.op = "undo" /\ ~hist.aborted
    /\ Len(hist.visited) >= 2
    /\ \E i, j \in 1..Len(load_log(hist.preLog)) :
          load_log(hist.preLog)[i].timestamp
              < load_log(hist.preLog)[j].timestamp

\* C17: the log accumulates: after an organize run that moved a file the log
\* is the valid log of before the run followed by the run's records in the
\* order of the moves; and after organize runs with no undo in between it
\* is what it held before them followed by the records of all these runs,
\* oldest run first, none twice and none missing.
LogAccumulates ==
    /\ (hist.op = "organize" /\ hist.returned # <<>>) =>
           log = ListLog(load_log(hist.preLog) \o hist.returned)
    /\ (hist.streak # <<>>) =>
           /\ log = ListLog(hist.base \o hist.streak)
           /\ \A i, j \in 1..Len(hist.streak) :
                 hist.streak[i] = hist.streak[j] => i = j

\* The second of two organize runs that each moved a file, its records
\* behind those of the first.
LogAccumulatesWitness ==
    /\ hist.op = "organize" /\ hist.returned # <<>>
    /\ Len(hist.streak) > Len(hist.returned)
    /\ Len(load_log(hist.preLog)) >= 1
    /\ log.entries[Len(log.entries)].timestamp > log.entries[1].timestamp

\* C16: organize handles only the regular files that are direct entries of
\* the source folder: a sub-directory of the source folder, with all that is
\* in it, is at its path after the run as before, no record names it, and
\* it is not counted as scanned.
SubDirsUntouched ==
    (hist.op = "organize") =>
        /\ \A p \in DOMAIN hist.preFiles :
              hist.preFiles[p] = DirTree =>
                 /\ p \in DOMAIN files /\ files[p] = DirTree
                 /\ \A i \in 1..Len(hist.returned) :
                       hist.returned[i].src # p /\ hist.returned[i].dest # p
        /\ \A p \in DOMAIN files :
              files[p] = DirTree => p \in DOMAIN hist.preFiles
        /\ hist.total <= Cardinality({p \in DOMAIN hist.preFiles :
                              p.dir = SourceDir /\ hist.preFiles[p] # DirTree})

\* An organize run moves a file out of a source folder that also holds a
\* sub-directory.
SubDirsUntouchedWitness ==
    /\ hist.op = "organize" /\ ~hist.dry /\ hist.returned # <<>>
    /\ Path(SourceDir, SubDirName) \in DOMAIN hist.preFiles
    /\ hist.preFiles[Path(SourceDir, SubDirName)] = DirTree
    /\ Path(SourceDir, SubDirName) \in DOMAIN files

\* C15: undo reverses the last organize run: after two organize runs into
\* the same output folder, an undo in which nothing fails moves back the
\* files the later run moved and leaves the files the earlier run moved in
\* their category folders.  (Stated for a log whose records name different
\* source paths, none of them taken.)
UndoReversesLastRunOnly ==
    LET lg == load_log(hist.preLog)
        last == {i \in 1..Len(lg) :
                    \A j \in 1..Len(lg) : lg[j].timestamp <= lg[i].timestamp}
    IN  (/\ hist.op = "undo" /\ ~hist.aborted
         /\ hist.failed = <<>> /\ hist.missing = <<>>
         /\ \A i, j \in 1..Len(lg) : lg[i].src = lg[j].src => i = j
         /\ \A i \in 1..Len(lg) : lg[i].src \notin DOMAIN hist.preFiles
         /\ \E i \in 1..Len(lg) : i \notin last) =>
            /\ \A i \in last :
                  /\ lg[i].src \in DOMAIN files
                  /\ files[lg[i].src] = hist.preFiles[lg[i].dest]
            /\ \A i \in 1..Len(lg) :
                  i \notin last =>
                     /\ lg[i].dest \in DOMAIN files
                     /\ files[lg[i].dest] = hist.preFiles[lg[i].dest]

\* C14: every organize run and every undo run comes to its final report
\* with no exception leaving it: organize has handled every regular file of
\* the source folder, undo every record of the log, whatever is missing and
\* whatever fails.
RunsReachTheirReport ==
    /\ (hist.op = "organize" /\ ~hist.dry) =>
          /\ ~hist.aborted
          /\ Len(hist.returned) + hist.skipped = hist.total
    /\ (hist.op = "undo") =>
          /\ ~hist.aborted
          /\ Len(hist.restored) + Len(hist.failedIdx) + Len(hist.missing)
                = Len(load_log(hist.preLog))

\* C12: collision naming.  The allocator gives a file its own name when the
\* category folder holds nothing of that name, and else the candidate
\* base(k)ext with the smallest k >= 1 that does not exist, ext being empty
\* for a name without extension.  So over successive runs the first file
\* named name.ext lands at name.ext and the k-th (k >= 2) at name(k-1).ext,
\* as long as no file of another name took one of these paths.
CollisionNaming ==
    LET es == load_log(log)
        Cand(n, k) == SplitExt(n).base \o <<"(">> \o IntToStr(k) \o <<")">>
                         \o SplitExt(n).ext
    IN  /\ (hist.op = "organize") =>
              \A i \in 1..Len(hist.returned) :
                 LET r == hist.returned[i]
                     n == r.src.name
                     taken == {p.name : p \in {q \in DOMAIN hist.preFiles :
                                                  q.dir = r.dest.dir}}
                              \cup {hist.returned[j].dest.name :
                                       j \in {m \in 1..(i - 1) :
                                          hist.returned[m].dest.dir = r.dest.dir}}
                 IN  IF n \notin taken
                     THEN r.dest.name = n
                     ELSE \E k \in 1..(Cardinality(taken) + 1) :
                             /\ r.dest.name = Cand(n, k)
                             /\ Cand(n, k) \notin taken
                             /\ \A m \in 1..(k - 1) : Cand(n, m) \in taken
        /\ \A i \in 1..Len(es) :
              LET n == es[i].src.name
                  k == Cardinality({j \in 1..i : es[j].src.name = n})
                  unused == \A j \in 1..(i - 1) :
                               es[j].src.name # n =>
                                  \/ es[j].dest.dir # es[i].dest.dir
                                  \/ es[j].dest.name \notin
                                        ({n} \cup {Cand(n, m) : m \in 1..i})
              IN  unused =>
                     /\ es[i].dest.name = IF k = 1 THEN n ELSE Cand(n, k - 1)
                     /\ (n = <<"a",".","t","x","t">> /\ k = 2) =>
                           es[i].dest.name = <<"a","(","1",")",".","t","x","t">>
                     /\ (n = <<"a",".","t","x","t">> /\ k = 3) =>
                           es[i].dest.name = <<"a","(","2",")",".","t","x","t">>
                     /\ (n = <<"c">> /\ k = 2) =>
                           es[i].dest.name = <<"c","(","1",")">>

\* The third file named a.txt has landed at a(2).txt.
CollisionNamingWitness ==
    /\ hist.op = "organize" /\ Len(hist.returned) = 1
    /\ hist.returned[1].src.name = <<"a",".","t","x","t">>
    /\ hist.returned[1].dest.name = <<"a","(","2",")",".","t","x","t">>
    /\ Path("Documents", <<"a",".","t","x","t">>) \in DOMAIN hist.preFiles
    /\ Path("Documents", <<"a","(","1",")",".","t","x","t">>)
          \in DOMAIN hist.preFiles

\* C13: every regular file lands in exactly one category folder, the one
\* its lower-cased extension decides: the category of FILE_TYPES that lists
\* it, whatever the case of the letters in the file name, and "Others" for
\* any other extension and for none.
ExtensionDecidesCategory ==
    (hist.op = "organize") =>
        \A i \in 1..Len(hist.returned) :
           LET r == hist.returned[i]
               n == r.src.name
               ext == Lower(SplitExt(n).ext)
               cats == {c \in CategoryDirs \ {"Others"} :
                           \E j \in 1..Len(FILE_TYPES[c]) : FILE_TYPES[c][j] = ext}
           IN  /\ cats = {} => r.dest.dir = "Others"
               /\ cats # {} => cats = {r.dest.dir}
               /\ {p \in DOMAIN files : files[p] = hist.preFiles[r.src]}
                     = {r.dest}
               /\ n = <<"a",".","t","x","t">> => r.dest.dir = "Documents"
               /\ n = <<"b",".","J","P","G">> => r.dest.dir = "Images"
               /\ n = <<"m",".","M","p","3">> => r.dest.dir = "Music"
               /\ n = <<"d",".","x","y","z">> => r.dest.dir = "Others"
               /\ n = <<"c">> => r.dest.dir = "Others"

\* Files with an extension in capitals, with an extension the table does
\* not list and with no extension have been organized.
ExtensionDecidesCategoryWitness ==
    /\ Path("Images", <<"b",".","J","P","G">>) \in DOMAIN files
    /\ Path("Others", <<"d",".","x","y","z">>) \in DOMAIN files
    /\ Path("Others", <<"c">>) \in DOMAIN files
    /\ hist.op = "organize" /\ Len(hist.returned) = 1

====
